---- MODULE Spec2Model ----
(***************************************************************************)
(* State-machine model of the in-process performance monitor of            *)
(* backend/performance.py: PerformanceMonitor (record_request,             *)
(* record_system_metrics, get_endpoint_stats, get_system_stats,            *)
(* get_performance_summary), the instrumentation wrappers                  *)
(* (PerformanceMiddleware.__call__, performance_timer), the sampler loop   *)
(* of start_system_monitoring and get_performance_dashboard_data.          *)
(*                                                                         *)
(* Units: durations are integer milliseconds (1.0 s = 1000), the clock     *)
(* `now` is integer seconds, percentages are integers.  A quotient the     *)
(* code computes in floating point (a mean, a rate) is kept as the exact   *)
(* fraction [num, den].  Python's None is the empty tuple and any other    *)
(* value v of an Optional field is the one-element tuple <<v>>.            *)
(***************************************************************************)
EXTENDS Integers, Sequences, FiniteSets, TLC

\* ---------------------------------------------------------------- bounds

\* PerformanceMonitor(max_history=...): the constructor argument (default 1000).
max_history == 2

\* deque(maxlen=100) of every endpoint's response_times, scaled down so that
\* eviction happens within the explored runs.
ResponseTimesMaxlen == 2

\* Units of work each request thread runs through the instrumentation.
MaxCalls == 3

\* Iterations of the sampler loop that are explored.
MaxSamples == 3

\* Queries the reader thread issues.
MaxQueries == 1

\* SecurityConfig.RATE_LIMIT_REQUESTS (100) and RATE_LIMIT_WINDOW (3600 s),
\* scaled down: requests per window, and the window in clock ticks.
RATE_LIMIT_REQUESTS == 2
RATE_LIMIT_WINDOW == 2

\* is_allowed calls each handler thread makes, and the last clock tick.
MaxChecks == 4
MaxTime == 3

\* ------------------------------------------------------ program constants

slow_request_threshold == 1000    \* 1.0 seconds
memory_threshold == 80
cpu_threshold == 80
error_rate_threshold == [num |-> 1, den |-> 10]    \* 0.1: set at line 66, read nowhere
DefaultInterval == 60             \* start_system_monitoring(interval=60)
DefaultMinutes == 5               \* get_system_stats(minutes=5)
ErrorStatusFloor == 400           \* metrics.status_code >= 400
FailureStatus == 500              \* status_code=500 on the except paths
TimerSuccessStatus == 200         \* status_code=200 in performance_timer
RecentRequests == 10              \* list(request_metrics)[-10:]

\* ---------------------------------------------------------------- values

None == <<>>
Some(v) == <<v>>

\* Python truthiness of an Optional[str]: None and "" are falsy.
Truthy(opt) == opt # None /\ opt[1] # ""

Callers == {"c1", "c2"}
Readers == {"r1"}
Samplers == {"s1"}
Handlers == {"h1", "h2"}          \* threads that call rate_limiter.is_allowed
Threads == Callers \cup Readers \cup Samplers \cup Handlers

\* What the wrapped unit of work does: it hands back a response carrying a
\* status code, or it raises an exception e whose str(e) is msg.
\* A performance_timer body that runs to its end has no response.
Response(status) == [kind |-> "response", status |-> status]
Raises(msg) == [kind |-> "exception", msg |-> msg]
Completes == [kind |-> "completed"]

\* The units of work the request threads run.  via: the wrapper used
\* ("middleware": PerformanceMiddleware.__call__; "timer": performance_timer
\* with a monitor; "timer_nomon": performance_timer(name), monitor=None).
\* elapsed is the wall-clock time the wrapper measures around the work.
Works ==
  { [via |-> "middleware", method |-> "GET", path |-> "/courses",
     outcome |-> Response(200), elapsed |-> 200],
    [via |-> "middleware", method |-> "GET", path |-> "/courses",
     outcome |-> Response(404), elapsed |-> 1500],
    [via |-> "middleware", method |-> "POST", path |-> "/courses",
     outcome |-> Raises("boom"), elapsed |-> 300],
    [via |-> "timer", method |-> "", path |-> "database_query",
     outcome |-> Completes, elapsed |-> 1000],
    [via |-> "timer", method |-> "", path |-> "database_query",
     outcome |-> Raises(""), elapsed |-> 1200],
    [via |-> "timer_nomon", method |-> "", path |-> "database_query",
     outcome |-> Completes, elapsed |-> 200],
    [via |-> "timer_nomon", method |-> "", path |-> "database_query",
     outcome |-> Raises("boom"), elapsed |-> 300] }

\* PerformanceMetrics(...): the fields record_request reads.
PerformanceMetrics(endpoint, method, response_time, status_code, error_message) ==
  [endpoint |-> endpoint, method |-> method, response_time |-> response_time,
   status_code |-> status_code, error_message |-> error_message]

\* endpoint_key = f"{metrics.method} {metrics.endpoint}"
EndpointKey(m) == m.method \o " " \o m.endpoint

\* A deque built without maxlen: nothing is ever discarded.
DequeAppendUnbounded(d, x, maxlen) == Append(d, x)

\* A full buffer that refuses the new item instead of discarding its oldest.
DequeAppendKeepOldest(d, x, maxlen) == IF Len(d) >= maxlen THEN d ELSE Append(d, x)

\* collections.deque(maxlen=n).append(x): append on the right and, when the
\* deque is longer than maxlen, discard from the left.
DequeAppend(d, x, maxlen) ==
  LET a == Append(d, x)
  IN  IF Len(a) > maxlen THEN SubSeq(a, Len(a) - maxlen + 1, Len(a)) ELSE a

\* ------------------------------------------------- instrumentation wrappers

\* What a wrapper hands to its own caller.
Returned(v) == [kind |-> "returned", value |-> v]
Raised(e) == [kind |-> "raised", exc |-> e]

\* A middleware that records on the success path and once more on its way out.
PerformanceMiddlewareCallTwice(w) ==
  IF w.outcome.kind = "exception"
  THEN [records |-> << PerformanceMetrics(w.path, w.method, Some(w.elapsed),
                                          FailureStatus, Some(w.outcome.msg)) >>,
        result |-> Raised(w.outcome)]
  ELSE [records |-> << PerformanceMetrics(w.path, w.method, Some(w.elapsed),
                                          w.outcome.status, None),
                       PerformanceMetrics(w.path, w.method, Some(w.elapsed),
                                          w.outcome.status, None) >>,
        result |-> Returned(w.outcome)]

\* PerformanceMiddleware.__call__: the metric built on the success path and on
\* the except path, and `return response` / `raise`.
PerformanceMiddlewareCall(w) ==
  IF w.outcome.kind = "exception"
  THEN [records |-> << PerformanceMetrics(w.path, w.method, Some(w.elapsed),
                                          FailureStatus, Some(w.outcome.msg)) >>,
        result |-> Raised(w.outcome)]
  ELSE [records |-> << PerformanceMetrics(w.path, w.method, Some(w.elapsed),
                                          w.outcome.status, None) >>,
        result |-> Returned(w.outcome)]

\* A timer whose except branch records and does not re-raise: the context
\* manager then swallows the exception of its body.
performance_timer_no_raise(w, monitor) ==
  [records |-> IF monitor
               THEN << PerformanceMetrics(w.path, "INTERNAL", Some(w.elapsed),
                                          IF w.outcome.kind = "exception"
                                          THEN FailureStatus ELSE TimerSuccessStatus,
                                          IF w.outcome.kind = "exception"
                                          THEN Some(w.outcome.msg) ELSE None) >>
               ELSE << >>,
   result |-> Returned(Completes)]

\* performance_timer(operation_name, monitor): `if monitor:` guards both the
\* except branch and the else branch; the except branch ends in `raise`.
performance_timer(w, monitor) ==
  IF w.outcome.kind = "exception"
  THEN [records |-> IF monitor
                    THEN << PerformanceMetrics(w.path, "INTERNAL", Some(w.elapsed),
                                               FailureStatus, Some(w.outcome.msg)) >>
                    ELSE << >>,
        result |-> Raised(w.outcome)]
  ELSE [records |-> IF monitor
                    THEN << PerformanceMetrics(w.path, "INTERNAL", Some(w.elapsed),
                                               TimerSuccessStatus, None) >>
                    ELSE << >>,
        result |-> Returned(w.outcome)]

\* A caller that passes a metric of its own to record_request.
DirectCall(w) == [records |-> << w.metric >>, result |-> Returned(Completes)]

Instrument(w) ==
  CASE w.via = "middleware"  -> PerformanceMiddlewareCall(w)
    [] w.via = "timer"       -> performance_timer(w, TRUE)
    [] w.via = "timer_nomon" -> performance_timer(w, FALSE)
    [] w.via = "direct"      -> DirectCall(w)

\* ------------------------------------------------------------------ state

VARIABLES
  request_metrics,   \* PerformanceMonitor.request_metrics (deque, maxlen=max_history)
  system_metrics,    \* PerformanceMonitor.system_metrics (deque, maxlen=max_history)
  endpoint_stats,    \* PerformanceMonitor.endpoint_stats (defaultdict by endpoint key)
  lock,              \* PerformanceMonitor.lock: None, or <<t>> for the holder t
  now,               \* the wall clock, seconds
  log,               \* the records handed to `logger`, in order
  pc,                \* each thread's position in the code
  frame,             \* each thread's local variables
  calls,             \* per thread: units of work (queries, iterations) finished
  inserted,          \* history: every metric appended to request_metrics, in order
  sampled,           \* history: every sample appended to system_metrics, in order
  requests,          \* RateLimiter.requests (dict: client_ip -> list of timestamps)
  admitted           \* history: every finished is_allowed call, in order

vars == << request_metrics, system_metrics, endpoint_stats, lock, now, log,
           pc, frame, calls, inserted, sampled, requests, admitted >>

monitor == << request_metrics, system_metrics, endpoint_stats >>

\* RateLimiter.__init__: self.requests = {}
EmptyRequests == [c \in {} |-> << >>]

NoFrame == [op |-> "none"]

\* The value the defaultdict factory of endpoint_stats builds for a new key.
NewStats == [count |-> 0, total_time |-> 0, errors |-> 0, response_times |-> << >>]

\* endpoint_stats[key] on the defaultdict: a missing key is inserted first.
Lookup(stats, key) ==
  IF key \in DOMAIN stats THEN stats
  ELSE [k \in DOMAIN stats \cup {key} |-> IF k = key THEN NewStats ELSE stats[k]]

Init ==
  /\ request_metrics = << >>
  /\ system_metrics = << >>
  /\ endpoint_stats = [k \in {} |-> NewStats]
  /\ lock = None
  /\ now = 0
  /\ log = << >>
  /\ pc = [t \in Threads |-> IF t \in Samplers THEN "sm_collect" ELSE "idle"]
  /\ frame = [t \in Threads |-> NoFrame]
  /\ calls = [t \in Threads |-> 0]
  /\ inserted = << >>
  /\ sampled = << >>
  /\ requests = EmptyRequests
  /\ admitted = << >>

\* No mutual exclusion: the with statement left out.
NoLock(t) == TRUE

\* `with self.lock:` on a threading.Lock: entering blocks until the lock is
\* free, whoever holds it (the lock is not reentrant).
CanAcquire(t) == lock = None
\* An acquisition that leaves the lock free.
AcquireNotHeld(t) == None

Acquire(t) == Some(t)

\* ------------------------------------------ request threads: the wrappers

\* The wrapper is entered, the wrapped work runs and the wrapper builds the
\* metric it is going to record (none of this touches the monitor).
Enter(t, W) ==
  /\ pc[t] = "idle"
  /\ calls[t] < MaxCalls
  /\ \E w \in W :
       LET i == Instrument(w)
       IN  /\ frame' = [frame EXCEPT ![t] =
                 [op |-> "wrapper", work |-> w, todo |-> i.records,
                  metric |-> None, cnt |-> 0, recorded |-> << >>,
                  rr |-> "none", out |-> i.result]]
           /\ pc' = [pc EXCEPT ![t] = "wr_next"]
  /\ UNCHANGED << monitor, lock, now, log, calls, inserted, sampled, requests, admitted >>

\* The wrapper's next statement: a call of monitor.record_request(metrics), or
\* its `return response` / `raise`.
WrapperNext(t) ==
  /\ pc[t] = "wr_next"
  /\ IF frame[t].todo # << >>
     THEN /\ frame' = [frame EXCEPT ![t].metric = Head(frame[t].todo),
                                    ![t].todo = Tail(frame[t].todo),
                                    ![t].recorded = Append(frame[t].recorded,
                                                           Head(frame[t].todo)),
                                    ![t].rr = "called"]
          /\ pc' = [pc EXCEPT ![t] = "rr_lock"]
     ELSE /\ pc' = [pc EXCEPT ![t] = "returned"]
          /\ frame' = frame
  /\ UNCHANGED << monitor, lock, now, log, calls, inserted, sampled, requests, admitted >>

\* The wrapper's caller goes on to its next unit of work.
Continue(t) ==
  /\ pc[t] = "returned"
  /\ pc' = [pc EXCEPT ![t] = "idle"]
  /\ frame' = [frame EXCEPT ![t] = NoFrame]
  /\ calls' = [calls EXCEPT ![t] = @ + 1]
  /\ UNCHANGED << monitor, lock, now, log, inserted, sampled, requests, admitted >>

\* ------------------------------------------------------- record_request

\* float + metrics.response_time, float > threshold: a response_time that is
\* no number (None) makes the arithmetic raise TypeError.
IsNumber(rt) == rt # None

\* Counting server errors only.
IsServerErrorStatus(status_code) == status_code >= FailureStatus

\* if metrics.status_code >= 400
IsErrorStatus(status_code) == status_code >= ErrorStatusFloor

\* if metrics.response_time > self.slow_request_threshold
IsSlow(response_time) == response_time > slow_request_threshold

SlowRequestWarning(key, response_time) ==
  [level |-> "warning", event |-> "slow_request", key |-> key, value |-> response_time]
RequestErrorLog(key, msg) ==
  [level |-> "error", event |-> "request_error", key |-> key, message |-> msg]

\* Logger calls that report an error for every error status.
RequestLogsByStatus(m) ==
  (IF IsSlow(m.response_time[1])
   THEN << SlowRequestWarning(EndpointKey(m), m.response_time[1]) >> ELSE << >>)
  \o
  (IF IsErrorStatus(m.status_code)
   THEN << RequestErrorLog(EndpointKey(m), "") >> ELSE << >>)

\* The logger calls of record_request, lines 85-93, in order.
RequestLogs(m) ==
  (IF IsSlow(m.response_time[1])
   THEN << SlowRequestWarning(EndpointKey(m), m.response_time[1]) >> ELSE << >>)
  \o
  (IF Truthy(m.error_message)
   THEN << RequestErrorLog(EndpointKey(m), m.error_message[1]) >> ELSE << >>)

\* with self.lock:  (line 72)
RecordRequestLock(t) ==
  /\ pc[t] = "rr_lock"
  /\ CanAcquire(t)
  /\ lock' = Acquire(t)
  /\ pc' = [pc EXCEPT ![t] = "rr_append"]
  /\ UNCHANGED << monitor, now, log, frame, calls, inserted, sampled, requests, admitted >>

\* self.request_metrics.append(metrics)  (line 73)
RecordRequestAppend(t) ==
  /\ pc[t] = "rr_append"
  /\ request_metrics' = DequeAppend(request_metrics, frame[t].metric, max_history)
  /\ inserted' = Append(inserted, frame[t].metric)
  /\ pc' = [pc EXCEPT ![t] = "rr_load"]
  /\ UNCHANGED << system_metrics, endpoint_stats, lock, now, log, frame, calls, sampled, requests, admitted >>

\* stats = self.endpoint_stats[endpoint_key] and the load of stats['count']
\* (lines 76-78); the defaultdict inserts a missing key.
RecordRequestLoad(t) ==
  /\ pc[t] = "rr_load"
  /\ LET key == EndpointKey(frame[t].metric)
         es == Lookup(endpoint_stats, key)
     IN  /\ endpoint_stats' = es
         /\ frame' = [frame EXCEPT ![t].cnt = es[key].count]
  /\ pc' = [pc EXCEPT ![t] = "rr_store"]
  /\ UNCHANGED << request_metrics, system_metrics, lock, now, log, calls, inserted, sampled, requests, admitted >>

\* The store of stats['count'] (line 78), total_time and response_times (lines
\* 79-80).  When the addition of line 79 raises, the count is already stored,
\* the with statement releases the lock and the exception leaves
\* record_request.
RecordRequestStore(t) ==
  /\ pc[t] = "rr_store"
  /\ LET m == frame[t].metric
         key == EndpointKey(m)
         st == endpoint_stats[key]
     IN  IF IsNumber(m.response_time)
         THEN /\ endpoint_stats' = [endpoint_stats EXCEPT ![key] =
                    [st EXCEPT !.count = frame[t].cnt + 1,
                               !.total_time = @ + m.response_time[1],
                               !.response_times =
                                   DequeAppend(@, m.response_time[1],
                                               ResponseTimesMaxlen)]]
              /\ pc' = [pc EXCEPT ![t] = "rr_check"]
              /\ UNCHANGED << lock, frame, requests, admitted >>
         ELSE /\ endpoint_stats' = [endpoint_stats EXCEPT ![key].count =
                                        frame[t].cnt + 1]
              /\ lock' = None
              /\ frame' = [frame EXCEPT ![t].rr = "raised",
                                        ![t].todo = << >>,
                                        ![t].out = Raised(Raises("TypeError"))]
              /\ pc' = [pc EXCEPT ![t] = "wr_next"]
  /\ UNCHANGED << request_metrics, system_metrics, now, log, calls, inserted, sampled, requests, admitted >>

\* The error count, the threshold checks and the end of the with block
\* (lines 82-93): the lock is released and record_request returns.
RecordRequestCheck(t) ==
  /\ pc[t] = "rr_check"
  /\ LET m == frame[t].metric
         key == EndpointKey(m)
     IN  /\ endpoint_stats' =
               IF IsErrorStatus(m.status_code)
               THEN [endpoint_stats EXCEPT ![key].errors = @ + 1]
               ELSE endpoint_stats
         /\ log' = log \o RequestLogs(m)
  /\ lock' = None
  /\ frame' = [frame EXCEPT ![t].rr = "returned"]
  /\ pc' = [pc EXCEPT ![t] = "wr_next"]
  /\ UNCHANGED << request_metrics, system_metrics, now, calls, inserted, sampled, requests, admitted >>

\* ------------------------------------------------ record_system_metrics

\* What psutil reports: cpu_percent(interval=1), virtual_memory().percent,
\* virtual_memory().used (bytes) and disk_usage('/').percent.
HostReadings ==
  { [cpu |-> 50, memory_percent |-> 60, memory_used |-> 1073741824, disk |-> 40],
    [cpu |-> 90, memory_percent |-> 85, memory_used |-> 1610612736, disk |-> 40] }

\* Readings with one value exactly at its threshold and the other above.
ThresholdReadings ==
  { [cpu |-> 80, memory_percent |-> 85, memory_used |-> 1610612736, disk |-> 40],
    [cpu |-> 90, memory_percent |-> 80, memory_used |-> 1572864000, disk |-> 40] }

BytesPerMB == 1048576             \* 1024 * 1024

SystemMetrics(h, timestamp) ==
  [cpu_percent |-> h.cpu, memory_percent |-> h.memory_percent,
   memory_used_mb |-> h.memory_used \div BytesPerMB,
   disk_usage_percent |-> h.disk, timestamp |-> timestamp]

\* Threshold checks that also warn at exactly the threshold.
SystemLogsInclusive(sm) ==
  (IF sm.cpu_percent >= cpu_threshold
   THEN << [level |-> "warning", event |-> "high_cpu", key |-> "",
            value |-> sm.cpu_percent] >> ELSE << >>)
  \o
  (IF sm.memory_percent >= memory_threshold
   THEN << [level |-> "warning", event |-> "high_memory", key |-> "",
            value |-> sm.memory_percent] >> ELSE << >>)

\* The threshold checks of record_system_metrics, lines 113-117, in order.
SystemLogs(sm) ==
  (IF sm.cpu_percent > cpu_threshold
   THEN << [level |-> "warning", event |-> "high_cpu", key |-> "",
            value |-> sm.cpu_percent] >> ELSE << >>)
  \o
  (IF sm.memory_percent > memory_threshold
   THEN << [level |-> "warning", event |-> "high_memory", key |-> "",
            value |-> sm.memory_percent] >> ELSE << >>)

\* The psutil calls and the SystemMetrics constructor (lines 97-107), outside
\* the lock, when none of them raises.
SampleCollectOk(t, H) ==
  \E h \in H :
    /\ frame' = [frame EXCEPT ![t] =
                    [op |-> "record_system_metrics",
                     metrics |-> SystemMetrics(h, now)]]
    /\ pc' = [pc EXCEPT ![t] = "sm_lock"]
    /\ UNCHANGED << monitor, log, sampled, requests, admitted >>

SystemMetricsError ==
  [level |-> "error", event |-> "system_metrics_error", key |-> "", value |-> 0]

\* A handler that stores an all-zero sample for the failed reading.
SampleCollectRaisesStoresZero(t) ==
  /\ log' = Append(log, SystemMetricsError)
  /\ system_metrics' =
        DequeAppend(system_metrics,
                    SystemMetrics([cpu |-> 0, memory_percent |-> 0,
                                   memory_used |-> 0, disk |-> 0], now),
                    max_history)
  /\ frame' = [frame EXCEPT ![t] = [op |-> "record_system_metrics_failed"]]
  /\ pc' = [pc EXCEPT ![t] = "sm_sleep"]
  /\ UNCHANGED << request_metrics, endpoint_stats, sampled, requests, admitted >>

\* A psutil call raises: control leaves the try block before line 109 and the
\* handler of lines 119-120 logs the error; record_system_metrics returns.
SampleCollectRaises(t) ==
  /\ log' = Append(log, SystemMetricsError)
  /\ frame' = [frame EXCEPT ![t] = [op |-> "record_system_metrics_failed"]]
  /\ pc' = [pc EXCEPT ![t] = "sm_sleep"]
  /\ UNCHANGED << monitor, sampled, requests, admitted >>

\* One call of record_system_metrics by monitor_loop (line 292).
SampleCollect(t, H) ==
  /\ pc[t] = "sm_collect"
  /\ calls[t] < MaxSamples
  /\ \/ SampleCollectOk(t, H)
     \/ SampleCollectRaises(t)
  /\ UNCHANGED << lock, now, calls, inserted, requests, admitted >>

\* with self.lock:  (line 109)
SampleLock(t) ==
  /\ pc[t] = "sm_lock"
  /\ CanAcquire(t)
  /\ lock' = Acquire(t)
  /\ pc' = [pc EXCEPT ![t] = "sm_append"]
  /\ UNCHANGED << monitor, now, log, frame, calls, inserted, sampled, requests, admitted >>

\* An append that leaves the with block without releasing the lock.
SampleAppendKeepsLock(t) ==
  /\ pc[t] = "sm_append"
  /\ system_metrics' = DequeAppend(system_metrics, frame[t].metrics, max_history)
  /\ sampled' = Append(sampled, frame[t].metrics)
  /\ pc' = [pc EXCEPT ![t] = "sm_check"]
  /\ UNCHANGED << request_metrics, endpoint_stats, lock, now, log, frame, calls, inserted, requests, admitted >>

\* self.system_metrics.append(metrics) and the end of the with block (line 110)
SampleAppend(t) ==
  /\ pc[t] = "sm_append"
  /\ system_metrics' = DequeAppend(system_metrics, frame[t].metrics, max_history)
  /\ sampled' = Append(sampled, frame[t].metrics)
  /\ lock' = None
  /\ pc' = [pc EXCEPT ![t] = "sm_check"]
  /\ UNCHANGED << request_metrics, endpoint_stats, now, log, frame, calls, inserted, requests, admitted >>

\* The threshold warnings (lines 113-117); record_system_metrics returns.
SampleCheck(t) ==
  /\ pc[t] = "sm_check"
  /\ log' = log \o SystemLogs(frame[t].metrics)
  /\ pc' = [pc EXCEPT ![t] = "sm_sleep"]
  /\ UNCHANGED << monitor, lock, now, frame, calls, inserted, sampled, requests, admitted >>

\* time.sleep(interval) in monitor_loop (lines 293 and 296), then the next
\* iteration of `while True`.
SampleSleep(t) ==
  /\ pc[t] = "sm_sleep"
  /\ now' = now + DefaultInterval
  /\ calls' = [calls EXCEPT ![t] = @ + 1]
  /\ frame' = [frame EXCEPT ![t] = NoFrame]
  /\ pc' = [pc EXCEPT ![t] = "sm_collect"]
  /\ UNCHANGED << monitor, lock, log, inserted, sampled, requests, admitted >>

\* ------------------------------------------------------------ statistics

Frac(n, d) == [num |-> n, den |-> d]
Zero == Frac(0, 1)                \* 0.0

RECURSIVE SumSeq(_)
SumSeq(xs) == IF xs = << >> THEN 0 ELSE Head(xs) + SumSeq(Tail(xs))

RECURSIVE SumSquares(_)
SumSquares(xs) == IF xs = << >> THEN 0 ELSE Head(xs) * Head(xs) + SumSquares(Tail(xs))

Range(xs) == { xs[i] : i \in DOMAIN xs }

\* statistics.mean
Mean(xs) == Frac(SumSeq(xs), Len(xs))

\* statistics.median: the middle of the sorted data, or the mean of the two
\* middle values when the length is even.
Median(xs) ==
  LET sorted == SortSeq(xs, LAMBDA a, b : a < b)
      n == Len(xs)
  IN  IF n % 2 = 1 THEN Frac(sorted[(n + 1) \div 2], 1)
      ELSE Frac(sorted[n \div 2] + sorted[n \div 2 + 1], 2)

Min(xs) == CHOOSE x \in Range(xs) : \A y \in Range(xs) : x <= y
Max(xs) == CHOOSE x \in Range(xs) : \A y \in Range(xs) : x >= y

\* statistics.stdev, kept as its square (the sample variance):
\* (n * sum(x^2) - sum(x)^2) / (n * (n - 1)).
StdevSquared(xs) ==
  LET n == Len(xs)
  IN  Frac(n * SumSquares(xs) - SumSeq(xs) * SumSeq(xs), n * (n - 1))

\* The plain dict {} that dict.get falls back to.
EmptyDict == << >>

\* dict.get(key, default): no defaultdict factory call, nothing inserted.
DictGet(d, key, default) == IF key \in DOMAIN d THEN d[key] ELSE default

\* Statistics whose error rate divides by the size of the window.
CalculateStatsWindowRate(stats) ==
  IF "response_times" \notin DOMAIN stats
  THEN Raised(Raises("KeyError"))
  ELSE IF stats.response_times = << >>
  THEN Returned([count |-> 0, avg_response_time |-> Zero,
                 median_response_time |-> Zero, min_response_time |-> Zero,
                 max_response_time |-> Zero, error_rate |-> Zero,
                 total_time |-> Zero])
  ELSE LET response_times == stats.response_times
       IN  Returned([count |-> stats.count,
                     avg_response_time |-> Mean(response_times),
                     median_response_time |-> Median(response_times),
                     min_response_time |-> Frac(Min(response_times), 1),
                     max_response_time |-> Frac(Max(response_times), 1),
                     std_deviation |-> IF Len(response_times) > 1
                                       THEN StdevSquared(response_times) ELSE Zero,
                     error_rate |-> IF stats.count > 0
                                    THEN Frac(stats.errors, Len(response_times)) ELSE Zero,
                     total_time |-> Frac(stats.total_time, 1)])

\* PerformanceMonitor._calculate_stats: stats['response_times'] raises KeyError
\* on a dict without that key.
CalculateStats(stats) ==
  IF "response_times" \notin DOMAIN stats
  THEN Raised(Raises("KeyError"))
  ELSE IF stats.response_times = << >>
  THEN Returned([count |-> 0, avg_response_time |-> Zero,
                 median_response_time |-> Zero, min_response_time |-> Zero,
                 max_response_time |-> Zero, error_rate |-> Zero,
                 total_time |-> Zero])
  ELSE LET response_times == stats.response_times
       IN  Returned([count |-> stats.count,
                     avg_response_time |-> Mean(response_times),
                     median_response_time |-> Median(response_times),
                     min_response_time |-> Frac(Min(response_times), 1),
                     max_response_time |-> Frac(Max(response_times), 1),
                     std_deviation |-> IF Len(response_times) > 1
                                       THEN StdevSquared(response_times) ELSE Zero,
                     error_rate |-> IF stats.count > 0
                                    THEN Frac(stats.errors, stats.count) ELSE Zero,
                     total_time |-> Frac(stats.total_time, 1)])

\* The body of get_endpoint_stats under the lock (lines 125-132).
EndpointStatsResult(es, endpoint) ==
  IF Truthy(endpoint)
  THEN CalculateStats(DictGet(es, endpoint[1], EmptyDict))
  ELSE Returned([k \in DOMAIN es |-> CalculateStats(es[k]).value])

SecondsPerMinute == 60            \* timedelta(minutes=minutes)

RECURSIVE SumField(_, _)
SumField(ms, f) == IF ms = << >> THEN 0 ELSE Head(ms)[f] + SumField(Tail(ms), f)

\* The body of get_system_stats under the lock (lines 164-184).
SystemStatsResult(sm, clock, minutes) ==
  LET cutoff_time == clock - minutes * SecondsPerMinute
      recent_metrics == SelectSeq(sm, LAMBDA m : m.timestamp > cutoff_time)
      n == Len(recent_metrics)
  IN  IF recent_metrics = << >>
      THEN Returned([cpu_avg |-> Zero, memory_avg |-> Zero, disk_avg |-> Zero,
                     sample_count |-> 0])
      ELSE Returned([cpu_avg |-> Frac(SumField(recent_metrics, "cpu_percent"), n),
                     memory_avg |-> Frac(SumField(recent_metrics, "memory_percent"), n),
                     disk_avg |-> Frac(SumField(recent_metrics, "disk_usage_percent"), n),
                     memory_used_mb_avg |->
                         Frac(SumField(recent_metrics, "memory_used_mb"), n),
                     sample_count |-> n])

RECURSIVE SumOver(_, _, _)
SumOver(es, keys, f) ==
  IF keys = {} THEN 0
  ELSE LET k == CHOOSE x \in keys : TRUE
       IN  es[k][f] + SumOver(es, keys \ {k}, f)

RECURSIVE AllResponseTimes(_, _)
AllResponseTimes(es, keys) ==
  IF keys = {} THEN << >>
  ELSE LET k == CHOOSE x \in keys : TRUE
       IN  es[k].response_times \o AllResponseTimes(es, keys \ {k})

\* get_performance_summary, lines 189-203: everything of the summary but its
\* 'system_stats' entry.
SummaryTotals(es) ==
  LET total_requests == SumOver(es, DOMAIN es, "count")
      total_errors == SumOver(es, DOMAIN es, "errors")
      total_time == SumOver(es, DOMAIN es, "total_time")
      all_response_times == AllResponseTimes(es, DOMAIN es)
  IN  [total_requests |-> total_requests,
       total_errors |-> total_errors,
       overall_error_rate |-> IF total_requests > 0
                              THEN Frac(total_errors, total_requests) ELSE Zero,
       avg_response_time |-> IF all_response_times # << >>
                             THEN Mean(all_response_times) ELSE Zero,
       total_time |-> Frac(total_time, 1),
       endpoint_count |-> Cardinality(DOMAIN es)]

\* list(d)[-n:]
LastN(d, n) == IF Len(d) > n THEN SubSeq(d, Len(d) - n + 1, Len(d)) ELSE d

\* ------------------------------------------------------- reader threads

\* The calls a reader makes: get_endpoint_stats(endpoint),
\* get_system_stats(minutes), get_performance_summary() and
\* get_performance_dashboard_data().
Queries ==
  { [fn |-> "get_endpoint_stats", endpoint |-> None, minutes |-> DefaultMinutes],
    [fn |-> "get_endpoint_stats", endpoint |-> Some("GET /courses"),
     minutes |-> DefaultMinutes],
    [fn |-> "get_endpoint_stats", endpoint |-> Some("GET /unknown"),
     minutes |-> DefaultMinutes],
    [fn |-> "get_system_stats", endpoint |-> None, minutes |-> DefaultMinutes],
    [fn |-> "get_system_stats", endpoint |-> None, minutes |-> 1],
    [fn |-> "get_performance_summary", endpoint |-> None, minutes |-> DefaultMinutes],
    [fn |-> "get_performance_dashboard_data", endpoint |-> None,
     minutes |-> DefaultMinutes] }

\* Where each function starts: all three methods open with `with self.lock:`;
\* get_performance_dashboard_data starts by calling get_performance_summary
\* (line 305).
EntryLabel(fn) ==
  CASE fn = "get_endpoint_stats"             -> "ges_lock"
    [] fn = "get_system_stats"               -> "gss_lock"
    [] fn = "get_performance_summary"        -> "gps_lock"
    [] fn = "get_performance_dashboard_data" -> "gps_lock"

EntryStack(fn) ==
  IF fn = "get_performance_dashboard_data" THEN << "dash_305" >> ELSE << >>

Query(t, Q) ==
  /\ pc[t] = "idle"
  /\ calls[t] < MaxQueries
  /\ \E q \in Q :
       /\ frame' = [frame EXCEPT ![t] =
             [op |-> q.fn, endpoint |-> q.endpoint, minutes |-> q.minutes,
              stack |-> EntryStack(q.fn), totals |-> NoFrame, summary |-> NoFrame,
              endpoints |-> NoFrame, out |-> NoFrame]]
       /\ pc' = [pc EXCEPT ![t] = EntryLabel(q.fn)]
  /\ UNCHANGED << monitor, lock, now, log, calls, inserted, sampled, requests, admitted >>

\* A call made by thread t has come back with result v (Returned or Raised)
\* while the lock is lk: the caller named on top of t's stack resumes.
\*   gps_204   get_performance_summary got its 'system_stats' (line 204); it
\*             builds the summary, leaves its with block and returns;
\*   dash_305..dash_307   get_performance_dashboard_data got 'summary',
\*             'endpoints', 'system'; after the last it reads request_metrics
\*             without the lock (line 308) and returns.
\* With an empty stack the result is the thread's.
RECURSIVE Resume(_, _, _)
Resume(fr, lk, v) ==
  IF fr.stack = << >> \/ v.kind = "raised"
  THEN [pc |-> "returned", frame |-> [fr EXCEPT !.out = v], lock |-> lk]
  ELSE LET top == Head(fr.stack)
           rest == [fr EXCEPT !.stack = Tail(fr.stack)]
       IN  CASE top = "gps_204" ->
                  Resume(rest, None,
                         Returned(fr.totals @@ [system_stats |-> v.value]))
             [] top = "dash_305" ->
                  [pc |-> "ges_lock",
                   frame |-> [rest EXCEPT !.summary = v.value, !.endpoint = None,
                                          !.stack = << "dash_306" >> \o @],
                   lock |-> lk]
             [] top = "dash_306" ->
                  [pc |-> "gss_lock",
                   frame |-> [rest EXCEPT !.endpoints = v.value,
                                          !.minutes = DefaultMinutes,
                                          !.stack = << "dash_307" >> \o @],
                   lock |-> lk]
             [] top = "dash_307" ->
                  Resume(rest, lk,
                         Returned([summary |-> fr.summary, endpoints |-> fr.endpoints,
                                   system |-> v.value,
                                   recent_requests |->
                                       LastN(request_metrics, RecentRequests),
                                   timestamp |-> now]))

\* with self.lock:  (get_endpoint_stats, line 124)
GetEndpointStatsLock(t) ==
  /\ pc[t] = "ges_lock"
  /\ CanAcquire(t)
  /\ lock' = Acquire(t)
  /\ pc' = [pc EXCEPT ![t] = "ges_body"]
  /\ UNCHANGED << monitor, now, log, frame, calls, inserted, sampled, requests, admitted >>

\* A lookup by subscript: the defaultdict inserts the key that is asked for.
GetEndpointStatsBodyInserting(t) ==
  /\ pc[t] = "ges_body"
  /\ LET es == IF Truthy(frame[t].endpoint)
               THEN Lookup(endpoint_stats, frame[t].endpoint[1])
               ELSE endpoint_stats
         r == Resume(frame[t], None, EndpointStatsResult(es, frame[t].endpoint))
     IN  /\ endpoint_stats' = es
         /\ pc' = [pc EXCEPT ![t] = r.pc]
         /\ frame' = [frame EXCEPT ![t] = r.frame]
         /\ lock' = r.lock
  /\ UNCHANGED << request_metrics, system_metrics, now, log, calls, inserted, sampled, requests, admitted >>

\* Lines 125-132: the statistics are computed and returned (or KeyError is
\* raised) inside the with block, which releases the lock on the way out.
GetEndpointStatsBody(t) ==
  /\ pc[t] = "ges_body"
  /\ LET r == Resume(frame[t], None,
                     EndpointStatsResult(endpoint_stats, frame[t].endpoint))
     IN  /\ pc' = [pc EXCEPT ![t] = r.pc]
         /\ frame' = [frame EXCEPT ![t] = r.frame]
         /\ lock' = r.lock
  /\ UNCHANGED << monitor, now, log, calls, inserted, sampled, requests, admitted >>

\* with self.lock:  (get_system_stats, line 163)
GetSystemStatsLock(t) ==
  /\ pc[t] = "gss_lock"
  /\ CanAcquire(t)
  /\ lock' = Acquire(t)
  /\ pc' = [pc EXCEPT ![t] = "gss_body"]
  /\ UNCHANGED << monitor, now, log, frame, calls, inserted, sampled, requests, admitted >>

\* Lines 164-184, returning inside the with block.
GetSystemStatsBody(t) ==
  /\ pc[t] = "gss_body"
  /\ LET r == Resume(frame[t], None,
                     SystemStatsResult(system_metrics, now, frame[t].minutes))
     IN  /\ pc' = [pc EXCEPT ![t] = r.pc]
         /\ frame' = [frame EXCEPT ![t] = r.frame]
         /\ lock' = r.lock
  /\ UNCHANGED << monitor, now, log, calls, inserted, sampled, requests, admitted >>

\* with self.lock:  (get_performance_summary, line 188)
GetPerformanceSummaryLock(t) ==
  /\ pc[t] = "gps_lock"
  /\ CanAcquire(t)
  /\ lock' = Acquire(t)
  /\ pc' = [pc EXCEPT ![t] = "gps_body"]
  /\ UNCHANGED << monitor, now, log, frame, calls, inserted, sampled, requests, admitted >>

\* Lines 189-204: the totals are computed and, still inside the with block,
\* self.get_system_stats() is called with its default window.
GetPerformanceSummaryBody(t) ==
  /\ pc[t] = "gps_body"
  /\ frame' = [frame EXCEPT ![t].totals = SummaryTotals(endpoint_stats),
                            ![t].minutes = DefaultMinutes,
                            ![t].stack = << "gps_204" >> \o @]
  /\ pc' = [pc EXCEPT ![t] = "gss_lock"]
  /\ UNCHANGED << monitor, lock, now, log, calls, inserted, sampled, requests, admitted >>

\* ---------------------------------------------------------- RateLimiter

\* The addresses get_client_ip hands to is_allowed.
ClientIps == {"192.168.1.1", "192.168.1.2"}

\* The list comprehension of lines 170-173.
KeepRecentInclusive(req_times, window_start) ==
  SelectSeq(req_times, LAMBDA req_time : req_time >= window_start)

KeepRecent(req_times, window_start) ==
  SelectSeq(req_times, LAMBDA req_time : req_time > window_start)

\* A limit test that admits one request more.
AtLimitOffByOne(req_times) == Len(req_times) > RATE_LIMIT_REQUESTS

\* len(self.requests[client_ip]) >= SecurityConfig.RATE_LIMIT_REQUESTS
AtLimit(req_times) == Len(req_times) >= RATE_LIMIT_REQUESTS

\* self.requests[client_ip] = value
SetRequestsDroppingOthers(reqs, client_ip, value) ==
  [c \in {client_ip} |-> value]

SetRequests(reqs, client_ip, value) ==
  [c \in DOMAIN reqs \cup {client_ip} |-> IF c = client_ip THEN value ELSE reqs[c]]

\* check_rate_limit calls rate_limiter.is_allowed(client_ip); lines 164-165
\* read the clock and compute window_start.
IsAllowedCall(t, C) ==
  /\ pc[t] = "idle"
  /\ calls[t] < MaxChecks
  /\ \E client_ip \in C :
       frame' = [frame EXCEPT ![t] =
                    [op |-> "is_allowed", client_ip |-> client_ip, now |-> now,
                     window_start |-> now - RATE_LIMIT_WINDOW,
                     kept |-> << >>, out |-> None]]
  /\ pc' = [pc EXCEPT ![t] = "ia_clean"]
  /\ UNCHANGED << monitor, lock, now, log, calls, inserted, sampled, requests, admitted >>

\* Lines 168-173 up to the store: the membership test and the evaluation of
\* the list comprehension over the client's current list.
IsAllowedClean(t) ==
  /\ pc[t] = "ia_clean"
  /\ IF frame[t].client_ip \in DOMAIN requests
     THEN /\ frame' = [frame EXCEPT ![t].kept =
                          KeepRecent(requests[frame[t].client_ip],
                                     frame[t].window_start)]
          /\ pc' = [pc EXCEPT ![t] = "ia_clean_store"]
     ELSE /\ frame' = frame
          /\ pc' = [pc EXCEPT ![t] = "ia_init"]
  /\ UNCHANGED << monitor, lock, now, log, calls, inserted, sampled, requests, admitted >>

\* self.requests[client_ip] = [...]  (line 169): the new list replaces the
\* client's list.
IsAllowedCleanStore(t) ==
  /\ pc[t] = "ia_clean_store"
  /\ requests' = SetRequests(requests, frame[t].client_ip, frame[t].kept)
  /\ pc' = [pc EXCEPT ![t] = "ia_init"]
  /\ UNCHANGED << monitor, lock, now, log, frame, calls, inserted, sampled, admitted >>

\* if client_ip not in self.requests:  (line 175)
IsAllowedInit(t) ==
  /\ pc[t] = "ia_init"
  /\ pc' = [pc EXCEPT ![t] = IF frame[t].client_ip \in DOMAIN requests
                             THEN "ia_check" ELSE "ia_init_store"]
  /\ UNCHANGED << monitor, lock, now, log, frame, calls, inserted, sampled, requests, admitted >>

\* self.requests[client_ip] = []  (line 176)
IsAllowedInitStore(t) ==
  /\ pc[t] = "ia_init_store"
  /\ requests' = SetRequests(requests, frame[t].client_ip, << >>)
  /\ pc' = [pc EXCEPT ![t] = "ia_check"]
  /\ UNCHANGED << monitor, lock, now, log, frame, calls, inserted, sampled, admitted >>

\* The outcome of a finished is_allowed call, for the history.
Outcome(fr, allowed) ==
  [client_ip |-> fr.client_ip, now |-> fr.now, allowed |-> allowed]

\* The limit test of lines 178-179: return False at the limit.
IsAllowedCheck(t) ==
  /\ pc[t] = "ia_check"
  /\ IF AtLimit(requests[frame[t].client_ip])
     THEN /\ frame' = [frame EXCEPT ![t].out = Some(FALSE)]
          /\ admitted' = Append(admitted, Outcome(frame[t], FALSE))
          /\ pc' = [pc EXCEPT ![t] = "returned"]
     ELSE /\ UNCHANGED << frame, admitted >>
          /\ pc' = [pc EXCEPT ![t] = "ia_append"]
  /\ UNCHANGED << monitor, lock, now, log, calls, inserted, sampled, requests >>

\* self.requests[client_ip].append(now); return True  (lines 182-183)
IsAllowedAppend(t) ==
  /\ pc[t] = "ia_append"
  /\ requests' = SetRequests(requests, frame[t].client_ip,
                             Append(requests[frame[t].client_ip], frame[t].now))
  /\ frame' = [frame EXCEPT ![t].out = Some(TRUE)]
  /\ admitted' = Append(admitted, Outcome(frame[t], TRUE))
  /\ pc' = [pc EXCEPT ![t] = "returned"]
  /\ UNCHANGED << monitor, lock, now, log, calls, inserted, sampled >>

\* Time passes: datetime.utcnow() grows between calls.
Tick ==
  /\ now < MaxTime
  /\ now' = now + 1
  /\ UNCHANGED << monitor, lock, log, pc, frame, calls, inserted, sampled, requests, admitted >>

\* ------------------------------------------------------- specification

CallerStep(t, W) ==
  \/ Enter(t, W)
  \/ WrapperNext(t)
  \/ RecordRequestLock(t)
  \/ RecordRequestAppend(t)
  \/ RecordRequestLoad(t)
  \/ RecordRequestStore(t)
  \/ RecordRequestCheck(t)
  \/ Continue(t)

ReaderStep(t, Q) ==
  \/ Query(t, Q)
  \/ GetEndpointStatsLock(t)
  \/ GetEndpointStatsBody(t)
  \/ GetSystemStatsLock(t)
  \/ GetSystemStatsBody(t)
  \/ GetPerformanceSummaryLock(t)
  \/ GetPerformanceSummaryBody(t)
  \/ Continue(t)

SamplerStep(t, H) ==
  \/ SampleCollect(t, H)
  \/ SampleLock(t)
  \/ SampleAppend(t)
  \/ SampleCheck(t)
  \/ SampleSleep(t)

HandlerStep(t, C) ==
  \/ IsAllowedCall(t, C)
  \/ IsAllowedClean(t)
  \/ IsAllowedCleanStore(t)
  \/ IsAllowedInit(t)
  \/ IsAllowedInitStore(t)
  \/ IsAllowedCheck(t)
  \/ IsAllowedAppend(t)
  \/ Continue(t)

\* HTTP traffic through the middleware only.
HttpWorks == { w \in Works : w.via = "middleware" }

\* A metric whose response_time is None instead of a float: the dataclass does
\* not check its field types, so record_request can be handed one.
UntypedMetric == PerformanceMetrics("/courses", "GET", None, 200, None)

DirectWorks == { [via |-> "direct", metric |-> UntypedMetric] }

\* Two request threads behind the middleware.
Next == \E t \in Callers : CallerStep(t, HttpWorks)

Spec == Init /\ [][Next]_vars

\* One request thread and the sampler thread of start_system_monitoring.
NextHistory ==
  \/ \E t \in {"c1"} : CallerStep(t, HttpWorks)
  \/ \E t \in Samplers : SamplerStep(t, HostReadings)

SpecHistory == Init /\ [][NextHistory]_vars

\* One thread using every wrapper: the middleware and performance_timer with
\* and without a monitor.
NextWrappers == \E t \in {"c1"} : CallerStep(t, Works)

SpecWrappers == Init /\ [][NextWrappers]_vars

\* One thread that also calls record_request itself, with an untyped metric.
NextUntyped == \E t \in {"c1"} : CallerStep(t, HttpWorks \cup DirectWorks)

SpecUntyped == Init /\ [][NextUntyped]_vars

\* One request thread and one reader of the statistics.
NextQueries ==
  \/ \E t \in {"c1"} : CallerStep(t, HttpWorks)
  \/ \E t \in Readers : ReaderStep(t, Queries)

SpecQueries == Init /\ [][NextQueries]_vars

\* The same threads under a fair scheduler: a thread that can take a step
\* again and again does take one, and so does a thread that waits for the
\* lock while the lock keeps being released.
FairSpec ==
  /\ SpecQueries
  /\ SF_vars(CallerStep("c1", HttpWorks))
  /\ \A t \in Readers : SF_vars(ReaderStep(t, Queries))

\* record_request called with a metric the caller built itself: GET /courses
\* requests of 0.2 s, 1.5 s and 0.3 s, the last one answered 404 with or
\* without an error message.
ScenarioRequest(response_time, status_code, error_message) ==
  [via |-> "direct",
   metric |-> PerformanceMetrics("/courses", "GET", Some(response_time),
                                 status_code, error_message)]

ScenarioWorks ==
  { ScenarioRequest(200, 200, None),
    ScenarioRequest(1500, 200, None),
    ScenarioRequest(300, 404, None),
    ScenarioRequest(300, 404, Some("Not Found")) }

NextScenario == \E t \in {"c1"} : CallerStep(t, ScenarioWorks)

SpecScenario == Init /\ [][NextScenario]_vars

\* The sampler thread and one reader of the statistics.
NextMonitoring ==
  \/ \E t \in Samplers : SamplerStep(t, HostReadings \cup ThresholdReadings)
  \/ \E t \in Readers : ReaderStep(t, Queries)

SpecMonitoring == Init /\ [][NextMonitoring]_vars

\* The same two threads under a fair scheduler.
FairMonitoring ==
  /\ SpecMonitoring
  /\ \A t \in Samplers : SF_vars(SamplerStep(t, HostReadings \cup ThresholdReadings))
  /\ \A t \in Readers : SF_vars(ReaderStep(t, Queries))

\* Two request threads and the sampler, one kind of request and one reading.
NextWriters ==
  \/ \E t \in Callers :
       CallerStep(t, { w \in HttpWorks : w.outcome = Response(200) })
  \/ \E t \in Samplers :
       SamplerStep(t, { h \in HostReadings : h.cpu <= cpu_threshold })

SpecWriters == Init /\ [][NextWriters]_vars

\* A thread that records through the middleware and directly, also with the
\* untyped metric, and one reader of the statistics.
NextUntypedQueries ==
  \/ \E t \in {"c1"} : CallerStep(t, HttpWorks \cup DirectWorks)
  \/ \E t \in Readers : ReaderStep(t, Queries)

SpecUntypedQueries == Init /\ [][NextUntypedQueries]_vars

\* A request thread using two endpoint keys, a reader calling each of the
\* three query methods, and the sampler.
NextFrames ==
  \/ \E t \in {"c1"} :
       CallerStep(t, { w \in Works : /\ w.via \in {"middleware", "timer"}
                                     /\ w.outcome \in {Response(200), Completes} })
  \/ \E t \in Readers :
       ReaderStep(t, { q \in Queries : /\ q.fn # "get_performance_dashboard_data"
                                       /\ q.minutes = DefaultMinutes })
  \/ \E t \in Samplers :
       SamplerStep(t, { h \in HostReadings : h.cpu <= cpu_threshold })

SpecFrames == Init /\ [][NextFrames]_vars

\* One thread calling is_allowed for two clients while time passes.
NextLimiter ==
  \/ \E t \in {"h1"} : HandlerStep(t, ClientIps)
  \/ Tick

SpecLimiter == Init /\ [][NextLimiter]_vars

\* Two threads calling is_allowed for the same client at the same time.
NextRace == \E t \in Handlers : HandlerStep(t, {"192.168.1.1"})

SpecRace == Init /\ [][NextRace]_vars

\* ------------------------------------------------------------- properties

Suffix(xs, n) == SubSeq(xs, Len(xs) - n + 1, Len(xs))
Smaller(a, b) == IF a < b THEN a ELSE b

\* No thread is between the first and the last statement of record_request.
Quiescent ==
  \A t \in Callers : pc[t] \notin {"rr_append", "rr_load", "rr_store", "rr_check"}

CountOf(k) == IF k \in DOMAIN endpoint_stats THEN endpoint_stats[k].count ELSE 0
ErrorsOf(k) == IF k \in DOMAIN endpoint_stats THEN endpoint_stats[k].errors ELSE 0

\* The record_request calls made so far with key k, and the failed ones.
CallsWithKey(k) == { i \in DOMAIN inserted : EndpointKey(inserted[i]) = k }
ErrorCallsWithKey(k) == { i \in CallsWithKey(k) : inserted[i].status_code >= 400 }
KeysSeen == { EndpointKey(inserted[i]) : i \in DOMAIN inserted } \cup DOMAIN endpoint_stats

\* C1: after any sequence of record_request calls, every key's count is the
\* number of calls made with that key and its error count the number of those
\* with status_code >= 400; errors <= count in every reachable state.
CountsMatchCalls ==
  /\ \A k \in DOMAIN endpoint_stats : endpoint_stats[k].errors <= endpoint_stats[k].count
  /\ Quiescent =>
       \A k \in KeysSeen : /\ CountOf(k) = Cardinality(CallsWithKey(k))
                           /\ ErrorsOf(k) = Cardinality(ErrorCallsWithKey(k))

\* C1 witness: calls have returned, one key has been recorded several times,
\* with and without an error status.
CountsMatchCallsWitness ==
  /\ Quiescent
  /\ \E k \in DOMAIN endpoint_stats :
       /\ endpoint_stats[k].count >= 3
       /\ endpoint_stats[k].errors >= 1
       /\ endpoint_stats[k].errors < endpoint_stats[k].count

AllCallersDone == \A t \in Callers : pc[t] = "idle" /\ calls[t] = MaxCalls
TotalCalls == Cardinality(Callers) * MaxCalls

\* C2: when T concurrent callers have each made M record_request calls, in
\* any interleaving, no update is lost: the counts add up to T*M (a key
\* that took every call has count T*M), the error counts add up to the number
\* of calls with an error status, and the history holds the latest calls.
NoLostUpdate ==
  AllCallersDone =>
    /\ Len(inserted) = TotalCalls
    /\ SumOver(endpoint_stats, DOMAIN endpoint_stats, "count") = TotalCalls
    /\ \A k \in DOMAIN endpoint_stats :
         Cardinality(CallsWithKey(k)) = TotalCalls => endpoint_stats[k].count = TotalCalls
    /\ SumOver(endpoint_stats, DOMAIN endpoint_stats, "errors") =
         Cardinality({ i \in DOMAIN inserted : inserted[i].status_code >= 400 })
    /\ request_metrics = Suffix(inserted, Smaller(Len(inserted), max_history))

\* C2 witness: all callers are done and every call went to the same key.
NoLostUpdateWitness ==
  /\ AllCallersDone
  /\ \E k \in DOMAIN endpoint_stats :
       endpoint_stats[k].count = TotalCalls /\ endpoint_stats[k].errors >= 1

\* C6: neither history ever holds more than max_history entries, and each
\* holds the most recently appended ones, oldest first.
HistoryHoldsLatest ==
  /\ Len(request_metrics) <= max_history
  /\ Len(system_metrics) <= max_history
  /\ request_metrics = Suffix(inserted, Smaller(Len(inserted), max_history))
  /\ system_metrics = Suffix(sampled, Smaller(Len(sampled), max_history))

\* C6 witness: more than max_history entries went into each history, and the
\* retained ones differ from one another and from an evicted one.
HistoryHoldsLatestWitness ==
  /\ Len(inserted) > max_history
  /\ Len(sampled) > max_history
  /\ inserted[1] # request_metrics[1]
  /\ request_metrics[1] # request_metrics[Len(request_metrics)]
  /\ sampled[1].cpu_percent # system_metrics[1].cpu_percent

\* The latencies of the calls made with key k, in call order.
LatenciesOf(k) ==
  LET made == SelectSeq(inserted, LAMBDA m : EndpointKey(m) = k)
  IN  [i \in DOMAIN made |-> made[i].response_time[1]]

\* C7: an endpoint's latency window never exceeds its capacity and, after any
\* sequence of calls, holds the latencies of the latest min(count, capacity)
\* calls for that key, in call order.
WindowHoldsLatest ==
  /\ \A k \in DOMAIN endpoint_stats :
       Len(endpoint_stats[k].response_times) <= ResponseTimesMaxlen
  /\ Quiescent =>
       \A k \in DOMAIN endpoint_stats :
         LET n == Smaller(endpoint_stats[k].count, ResponseTimesMaxlen)
         IN  /\ Len(endpoint_stats[k].response_times) = n
             /\ endpoint_stats[k].response_times = Suffix(LatenciesOf(k), n)

\* C7 witness: a key has been recorded more often than its window holds, and
\* the window's first latency differs from its last and from the evicted one.
WindowHoldsLatestWitness ==
  /\ Quiescent
  /\ \E k \in DOMAIN endpoint_stats :
       LET w == endpoint_stats[k].response_times
       IN  /\ endpoint_stats[k].count > ResponseTimesMaxlen
           /\ w[1] # w[Len(w)]
           /\ LatenciesOf(k)[1] # w[1]

\* Thread t's wrapper has handed control back to its caller.
Left(t) == pc[t] = "returned" /\ frame[t].op = "wrapper"
WorkFailed(t) == frame[t].work.outcome.kind = "exception"

\* C8: when the wrapped work fails, the wrapper has called record_request
\* exactly once, with status 500 and the failure's message, and that call has
\* returned, before the wrapper re-raises the very same failure;
\* performance_timer without a monitor records nothing and re-raises too.
FailureRecordedAndRaised ==
  \A t \in Callers :
    Left(t) /\ WorkFailed(t) =>
      /\ frame[t].out = [kind |-> "raised", exc |-> frame[t].work.outcome]
      /\ IF frame[t].work.via = "timer_nomon"
         THEN frame[t].recorded = << >>
         ELSE /\ Len(frame[t].recorded) = 1
              /\ frame[t].recorded[1].status_code = 500
              /\ frame[t].recorded[1].error_message = << frame[t].work.outcome.msg >>
              /\ frame[t].rr = "returned"
              /\ \E i \in DOMAIN inserted : inserted[i] = frame[t].recorded[1]

\* C8 witness: a performance_timer block with a monitor has failed and the
\* timer has left, and so has a failed request behind the middleware before.
FailureRecordedAndRaisedWitness ==
  \E t \in Callers :
    /\ Left(t) /\ WorkFailed(t)
    /\ frame[t].work.via = "timer"
    /\ \E i \in DOMAIN inserted :
         inserted[i].method = "POST" /\ inserted[i].status_code = 500

\* The metric a wrapper is to record for work that succeeded.
SuccessMetricOf(w) ==
  [endpoint |-> w.path,
   method |-> IF w.via = "middleware" THEN w.method ELSE "INTERNAL",
   response_time |-> << w.elapsed >>,
   status_code |-> IF w.via = "middleware" THEN w.outcome.status ELSE 200,
   error_message |-> << >>]

\* C9 as claimed: when the wrapped work succeeds, every wrapper has called
\* record_request exactly once, with the path, the method, the response's
\* status code and no error message, and returns the original result.
SuccessRecordedOnce ==
  \A t \in Callers :
    Left(t) /\ ~WorkFailed(t) =>
      /\ frame[t].recorded = << SuccessMetricOf(frame[t].work) >>
      /\ frame[t].rr = "returned"
      /\ frame[t].out = [kind |-> "returned", value |-> frame[t].work.outcome]

\* C9 as amended: the same for the middleware and for performance_timer with a
\* monitor; performance_timer without a monitor records nothing and returns.
SuccessRecordedOnceIfMonitored ==
  \A t \in Callers :
    Left(t) /\ ~WorkFailed(t) =>
      /\ frame[t].out = [kind |-> "returned", value |-> frame[t].work.outcome]
      /\ IF frame[t].work.via = "timer_nomon"
         THEN frame[t].recorded = << >> /\ frame[t].rr = "none"
         ELSE /\ frame[t].recorded = << SuccessMetricOf(frame[t].work) >>
              /\ frame[t].rr = "returned"
              /\ \E i \in DOMAIN inserted : inserted[i] = frame[t].recorded[1]

\* C9 witness: the middleware has returned a 404 response, after a
\* performance_timer block with a monitor had run to its end.
SuccessRecordedOnceWitness ==
  \E t \in Callers :
    /\ Left(t) /\ ~WorkFailed(t)
    /\ frame[t].work.via = "middleware"
    /\ frame[t].work.outcome.status = 404
    /\ \E i \in DOMAIN inserted :
         inserted[i].method = "INTERNAL" /\ inserted[i].status_code = 200

\* C10: a record_request call never ends in an exception reaching its caller:
\* whatever the metric, the call returns normally with the lock released.
RecordRequestNeverRaises ==
  \A t \in Callers :
    frame[t].op = "wrapper" /\ pc[t] \in {"wr_next", "returned"} =>
      /\ frame[t].rr # "raised"
      /\ lock # << t >>

\* The statistics of an endpoint with nothing recorded.
IsZeroed(st) ==
  /\ st.count = 0
  /\ st.avg_response_time = [num |-> 0, den |-> 1]
  /\ st.median_response_time = [num |-> 0, den |-> 1]
  /\ st.min_response_time = [num |-> 0, den |-> 1]
  /\ st.max_response_time = [num |-> 0, den |-> 1]
  /\ st.error_rate = [num |-> 0, den |-> 1]
  /\ st.total_time = [num |-> 0, den |-> 1]

\* C5: get_endpoint_stats(key) for a key that was never recorded does not
\* raise and returns zeroed statistics.
UnknownKeyZeroed ==
  \A t \in Readers :
    ( /\ pc[t] = "returned"
      /\ frame[t].op = "get_endpoint_stats"
      /\ Truthy(frame[t].endpoint)
      /\ CallsWithKey(frame[t].endpoint[1]) = {} ) =>
      /\ frame[t].out.kind = "returned"
      /\ IsZeroed(frame[t].out.value)

InRecordRequest(t) ==
  pc[t] \in {"rr_lock", "rr_append", "rr_load", "rr_store", "rr_check"}

\* C3: under fair scheduling, whoever takes the monitor lock releases it
\* again, so every record_request call that has started completes: no reader
\* blocks the writers for good.
LockAlwaysReleased ==
  /\ \A t \in Threads : (lock = << t >>) ~> (lock # << t >>)
  /\ \A t \in Callers : InRecordRequest(t) ~> ~InRecordRequest(t)

\* C4: every get_performance_summary call returns, and what it returns has
\* 'endpoint_count' and the 'system_stats' of the nested get_system_stats().
SummaryReturns ==
  \A t \in Readers :
    (frame[t].op = "get_performance_summary" /\ pc[t] = "gps_lock")
      ~> ( /\ pc[t] = "returned"
           /\ frame[t].out.kind = "returned"
           /\ {"endpoint_count", "system_stats"} \subseteq DOMAIN frame[t].out.value )

\* The sampler is inside an iteration whose psutil calls raised.
SampleFailed(t) == frame[t].op = "record_system_metrics_failed"

\* C11: a host-metrics failure inside record_system_metrics is caught and
\* logged; the failed call appends no sample and leaves the system window,
\* the request history and the per-endpoint aggregators as they were.
FailedSampleAppendsNothing ==
  [][ \A t \in Samplers :
        (pc'[t] # pc[t] /\ (SampleFailed(t) \/ SampleFailed(t)')) =>
          /\ monitor' = monitor
          /\ sampled' = sampled
          /\ SampleFailed(t)' =>
                /\ log' = Append(log, SystemMetricsError)
                /\ pc'[t] = "sm_sleep" ]_vars

\* C11 witness: after a sample was stored, a later iteration failed, and the
\* window still holds what it held.
FailedSampleAppendsNothingWitness ==
  \E t \in Samplers :
    /\ SampleFailed(t)
    /\ pc[t] = "sm_sleep"
    /\ Len(system_metrics) = 1
    /\ sampled = system_metrics
    /\ request_metrics # << >>

\* C12: a failed iteration does not end monitor_loop: after any iteration,
\* failed or not, the loop sleeps one interval and starts the next one, so
\* under fair scheduling every iteration that starts completes and is
\* followed by another.
SamplerKeepsSampling ==
  \A t \in Samplers :
    /\ (pc[t] = "sm_sleep") ~> (pc[t] = "sm_collect")
    /\ \A n \in 0 .. (MaxSamples - 1) :
         (pc[t] = "sm_collect" /\ calls[t] = n)
           ~> (pc[t] = "sm_collect" /\ calls[t] = n + 1)

LogEvents(event) == { i \in DOMAIN log : log[i].event = event }

\* The three calls of the scenario have been made in order and have returned;
\* msg is the error_message of the 404 request.
ScenarioDone(msg) ==
  /\ Quiescent
  /\ inserted = << ScenarioRequest(200, 200, None).metric,
                   ScenarioRequest(1500, 200, None).metric,
                   ScenarioRequest(300, 404, msg).metric >>

\* count = 3, errors = 1, error_rate = 1/3 and one slow-request warning, for
\* the 1.5 s request.
ScenarioCounts ==
  LET st == CalculateStats(endpoint_stats["GET /courses"]).value
  IN  /\ st.count = 3
      /\ endpoint_stats["GET /courses"].errors = 1
      /\ st.error_rate.num * 3 = st.error_rate.den * 1
      /\ Cardinality(LogEvents("slow_request")) = 1
      /\ \A i \in LogEvents("slow_request") :
            log[i].key = "GET /courses" /\ log[i].value = 1500

RECURSIVE SumAt(_, _, _)
SumAt(sm, idx, f) ==
  IF idx = {} THEN 0
  ELSE LET i == CHOOSE x \in idx : TRUE
       IN  sm[i][f] + SumAt(sm, idx \ {i}, f)

\* The averaged fields of a sample and the keys that report them.
AverageKeys ==
  [cpu_percent |-> "cpu_avg", memory_percent |-> "memory_avg",
   disk_usage_percent |-> "disk_avg", memory_used_mb |-> "memory_used_mb_avg"]

\* The retained samples less than `minutes` old at time `clock`.
InTrailingWindow(clock, minutes) ==
  { i \in DOMAIN system_metrics :
      clock - system_metrics[i].timestamp < minutes * SecondsPerMinute }

\* out reports the number of samples W and the mean of field f over them,
\* 0.0 if there are none.
ReportsMean(out, W, f) ==
  /\ AverageKeys[f] \in DOMAIN out
  /\ IF W = {}
     THEN out[AverageKeys[f]] = [num |-> 0, den |-> 1]
     ELSE out[AverageKeys[f]].num * Cardinality(W)
            = SumAt(system_metrics, W, f) * out[AverageKeys[f]].den

GetSystemStatsReturns(t) ==
  /\ pc[t] = "gss_body"
  /\ frame[t].op = "get_system_stats"
  /\ pc'[t] = "returned"

\* C14: get_system_stats(minutes) returns sample_count = the number of
\* retained samples inside the trailing window, older ones excluded, and the
\* arithmetic mean of every metric over exactly those samples; with no such
\* sample it returns sample_count = 0 and 0.0 for every average.
SystemStatsOverWindow ==
  [][ \A t \in Readers :
        GetSystemStatsReturns(t) =>
          LET out == frame'[t].out.value
              W == InTrailingWindow(now, frame[t].minutes)
          IN  /\ frame'[t].out.kind = "returned"
              /\ out.sample_count = Cardinality(W)
              /\ \A f \in DOMAIN AverageKeys : ReportsMean(out, W, f) ]_vars

\* Thread t ends a record_request call in this step.
RecordRequestReturns(t) == pc[t] = "rr_check" /\ pc'[t] = "wr_next"

\* errors / count of the key is above error_rate_threshold.
ErrorRateAbove(stats) ==
  stats.errors * error_rate_threshold.den > error_rate_threshold.num * stats.count

\* C15: whenever a record_request call leaves its endpoint's error rate above
\* error_rate_threshold (0.1), that call logs a warning about it; the request
\* is recorded all the same and the call returns normally.
HighErrorRateWarns ==
  [][ \A t \in Callers :
        ( /\ RecordRequestReturns(t)
          /\ ErrorRateAbove(endpoint_stats'[EndpointKey(frame[t].metric)]) ) =>
          /\ frame'[t].rr = "returned"
          /\ inserted[Len(inserted)] = frame[t].metric
          /\ \E i \in (Len(log) + 1) .. Len(log') :
                /\ log'[i].level = "warning"
                /\ log'[i].event \notin {"slow_request", "high_cpu", "high_memory"} ]_vars

\* The latency window of key k; empty for a key with no recorded requests.
WindowOf(k) ==
  IF k \in DOMAIN endpoint_stats THEN endpoint_stats[k].response_times ELSE << >>

\* A snapshot of key k that reports a standard deviation, 0 for a window of
\* fewer than two samples.
ReportsDeviation(result, k) ==
  /\ result.kind = "returned"
  /\ "std_deviation" \in DOMAIN result.value
  /\ Len(WindowOf(k)) < 2 => result.value.std_deviation = [num |-> 0, den |-> 1]

GetEndpointStatsReturns(t) ==
  /\ pc[t] = "ges_body"
  /\ frame[t].op = "get_endpoint_stats"
  /\ pc'[t] = "returned"

\* C16: every endpoint snapshot get_endpoint_stats returns reports
\* 'std_deviation', and it is 0 when the latency window holds one sample and
\* when it holds none (a key with no recorded requests).
SnapshotReportsDeviation ==
  [][ \A t \in Readers :
        GetEndpointStatsReturns(t) =>
          IF Truthy(frame[t].endpoint)
          THEN ReportsDeviation(frame'[t].out, frame[t].endpoint[1])
          ELSE /\ frame'[t].out.kind = "returned"
               /\ \A k \in DOMAIN endpoint_stats :
                     ReportsDeviation(Returned(frame'[t].out.value[k]), k) ]_vars

\* The last min(RecentRequests, size) records of the request history as it
\* was after n record_request calls.
RecentAfter(n) ==
  LET history == Suffix(SubSeq(inserted, 1, n), Smaller(n, max_history))
  IN  Suffix(history, Smaller(RecentRequests, Len(history)))

\* C17: a get_performance_dashboard_data call returns a snapshot with the
\* summary, the per-endpoint statistics, the system statistics of the default
\* window, a timestamp, and as recent_requests the last min(10, size) records
\* of the request history in insertion order.
DashboardReturns ==
  \A t \in Readers :
    (frame[t].op = "get_performance_dashboard_data" /\ pc[t] = "gps_lock")
      ~> ( /\ pc[t] = "returned"
           /\ frame[t].out.kind = "returned"
           /\ DOMAIN frame[t].out.value =
                 {"summary", "endpoints", "system", "recent_requests", "timestamp"}
           /\ \E n \in 0 .. Len(inserted) :
                 frame[t].out.value.recent_requests = RecentAfter(n) )

\* The events the current step adds to the log.
Emitted(event) == { i \in (Len(log) + 1) .. Len(log') : log'[i].event = event }

\* C18: a record_request call emits a slow-request warning iff the metric's
\* response_time is strictly greater than slow_request_threshold (none at
\* exactly the threshold) and an error event iff the metric carries an error
\* message, whatever its status code; the metric is recorded in either case.
RequestEventsIff ==
  [][ \A t \in Callers :
        RecordRequestReturns(t) =>
          LET m == frame[t].metric
          IN  /\ Cardinality(Emitted("slow_request")) =
                    (IF m.response_time[1] > slow_request_threshold THEN 1 ELSE 0)
              /\ Cardinality(Emitted("request_error")) =
                    (IF m.error_message # None THEN 1 ELSE 0)
              /\ \E i \in DOMAIN inserted : inserted[i] = m
              /\ EndpointKey(m) \in DOMAIN endpoint_stats' ]_vars

\* The sampler takes a step of a record_system_metrics call that did not fail.
SuccessfulSampleStep(t) ==
  /\ pc'[t] # pc[t]
  /\ pc[t] \in {"sm_lock", "sm_append", "sm_check"}

\* C19: every record_system_metrics call that does not fail appends exactly
\* one sample to the system window (evicting the oldest at capacity) whether
\* or not a threshold is breached, and then warns about the CPU iff
\* cpu_percent > cpu_threshold and about memory iff memory_percent >
\* memory_threshold.
SampleAppendedOnceAndWarned ==
  [][ \A t \in Samplers :
        SuccessfulSampleStep(t) =>
          LET m == frame[t].metrics
          IN  /\ pc[t] = "sm_lock" =>
                    pc'[t] = "sm_append" /\ system_metrics' = system_metrics
              /\ pc[t] = "sm_append" =>
                    /\ pc'[t] = "sm_check"
                    /\ system_metrics' =
                          Suffix(Append(system_metrics, m),
                                 Smaller(Len(system_metrics) + 1, max_history))
              /\ pc[t] = "sm_check" =>
                    /\ pc'[t] = "sm_sleep"
                    /\ system_metrics' = system_metrics
                    /\ system_metrics[Len(system_metrics)] = m
                    /\ Cardinality(Emitted("high_cpu")) =
                          (IF m.cpu_percent > cpu_threshold THEN 1 ELSE 0)
                    /\ Cardinality(Emitted("high_memory")) =
                          (IF m.memory_percent > memory_threshold THEN 1 ELSE 0)
              /\ pc[t] # "sm_check" => log' = log ]_vars

\* C19 witness: a reading with the CPU exactly at its threshold and memory
\* above its own has been stored: one memory warning, no CPU warning.
SampleAppendedOnceAndWarnedWitness ==
  \E t \in Samplers :
    /\ pc[t] = "sm_sleep"
    /\ frame[t].op = "record_system_metrics"
    /\ frame[t].metrics.cpu_percent = cpu_threshold
    /\ frame[t].metrics.memory_percent > memory_threshold
    /\ system_metrics = << frame[t].metrics >>
    /\ LogEvents("high_cpu") = {}
    /\ Cardinality(LogEvents("high_memory")) = 1

\* Thread t is between acquiring the lock and releasing it in record_request
\* or record_system_metrics: the statements that write the shared state.
InWriteSection(t) ==
  pc[t] \in {"rr_append", "rr_load", "rr_store", "rr_check", "sm_append"}

\* C20: two threads are never inside a writing section at once, and every
\* step that changes request_metrics, system_metrics or endpoint_stats is
\* taken by a thread that holds the monitor's lock.
WritersExcluded ==
  [][ /\ \A t, u \in Threads :
           (InWriteSection(t)' /\ InWriteSection(u)') => t = u
      /\ monitor' # monitor =>
           \E t \in Threads :
             /\ pc'[t] # pc[t]
             /\ InWriteSection(t)
             /\ lock = << t >>
             /\ \A u \in Threads \ {t} : ~InWriteSection(u) ]_vars

\* C20 witness: one request thread is writing while the other request thread
\* and the sampler both wait for the lock.
WritersExcludedWitness ==
  /\ pc["c1"] = "rr_store"
  /\ lock = << "c1" >>
  /\ pc["c2"] = "rr_lock"
  /\ \E t \in Samplers : pc[t] = "sm_lock"
  /\ system_metrics # << >>

\* C21: the sampler holds the monitor's lock only between acquiring it at
\* line 109 and the append of line 110: not while the psutil calls of
\* lines 98-100 are pending, not during the threshold checks or the sleep.
\* While it collects, the lock is free or held by another thread, so a
\* record_request call can take it.
CollectsOutsideLock ==
  \A t \in Samplers :
    /\ lock = << t >> => pc[t] = "sm_append"
    /\ (pc[t] = "sm_collect" /\ lock = None) =>
          \A c \in Callers : pc[c] = "rr_lock" => ENABLED RecordRequestLock(c)

\* C21 witness: the sampler has started its second call of
\* record_system_metrics and its psutil calls are pending; beside it a
\* record_request call has taken the lock, recorded and returned.
CollectsOutsideLockWitness ==
  \E t \in Samplers :
    /\ pc[t] = "sm_collect"
    /\ calls[t] = 1
    /\ Len(sampled) = 1
    /\ \E c \in Callers :
          /\ pc[c] = "returned"
          /\ calls[c] = 0
          /\ frame[c].rr = "returned"
          /\ request_metrics # << >>
          /\ now > 0

\* Reader t is at the statements that compute the derived statistics:
\* _calculate_stats (lines 127, 130), the means of get_system_stats (lines
\* 179-182), the sums and the mean of get_performance_summary (lines 189-201).
ComputingStatistics(t) == pc[t] \in {"ges_body", "gss_body", "gps_body"}

\* C22: a reader computes the derived statistics after it has released the
\* lock, so a record_request call waiting for the lock is never blocked by a
\* reader that is computing.
ReadersComputeUnlocked ==
  \A t \in Readers :
    ComputingStatistics(t) =>
      /\ lock # << t >>
      /\ \A c \in Callers : pc[c] = "rr_lock" => ENABLED RecordRequestLock(c)

RECURSIVE SumTimes(_)
SumTimes(idx) ==
  IF idx = {} THEN 0
  ELSE LET i == CHOOSE x \in idx : TRUE
       IN  inserted[i].response_time[1] + SumTimes(idx \ {i})

\* Of the first n record_request calls, those whose latency is still in its
\* endpoint's window: the last ResponseTimesMaxlen calls of each key.
RetainedOf(n) ==
  { i \in 1 .. n :
      Cardinality({ j \in (i + 1) .. n :
                      EndpointKey(inserted[j]) = EndpointKey(inserted[i]) })
        < ResponseTimesMaxlen }

\* summary is what get_performance_summary reports of the monitor as it was
\* after the first n record_request calls.
SummaryOfPrefix(summary, n) ==
  LET errors == Cardinality({ i \in 1 .. n : inserted[i].status_code >= 400 })
      W == RetainedOf(n)
  IN  /\ summary.total_requests = n
      /\ summary.total_errors = errors
      /\ summary.total_errors <= summary.total_requests
      /\ summary.total_time = [num |-> SumTimes(1 .. n), den |-> 1]
      /\ IF n = 0
         THEN summary.overall_error_rate = [num |-> 0, den |-> 1]
         ELSE summary.overall_error_rate.num * n
                = errors * summary.overall_error_rate.den
      /\ summary.endpoint_count =
            Cardinality({ EndpointKey(inserted[i]) : i \in 1 .. n })
      /\ IF W = {}
         THEN summary.avg_response_time = [num |-> 0, den |-> 1]
         ELSE summary.avg_response_time.num * Cardinality(W)
                = SumTimes(W) * summary.avg_response_time.den

\* C23: the summary a get_performance_summary call returns has
\* total_requests, total_errors and total_time equal to the sums of count,
\* errors and total_time over all endpoints in one snapshot (total_errors <=
\* total_requests), overall_error_rate = total_errors / total_requests (0
\* without requests), endpoint_count = the number of keys recorded, and
\* avg_response_time = the mean over all retained window samples (0 if none).
SummaryTotalsReturned ==
  \A t \in Readers :
    (frame[t].op = "get_performance_summary" /\ pc[t] = "gps_body")
      ~> ( /\ pc[t] = "returned"
           /\ frame[t].op = "get_performance_summary"
           /\ frame[t].out.kind = "returned"
           /\ \E n \in 0 .. Len(inserted) :
                 SummaryOfPrefix(frame[t].out.value, n) )

\* snap reports the lifetime count and total_time of raw, and mean, median,
\* min and max of the latencies raw retains in its window.
LifetimeAndWindowed(snap, raw) ==
  LET w == raw.response_times
      n == Len(w)
      AtMost(x, q) == x * q.den <= q.num
      AtLeast(x, q) == x * q.den >= q.num
  IN  /\ snap.count = raw.count
      /\ snap.total_time = [num |-> raw.total_time, den |-> 1]
      /\ n > 0 =>
            /\ snap.avg_response_time.num * n
                  = SumSeq(w) * snap.avg_response_time.den
            /\ \E i \in 1 .. n : snap.min_response_time = [num |-> w[i], den |-> 1]
            /\ \A i \in 1 .. n : AtLeast(w[i], snap.min_response_time)
            /\ \E i \in 1 .. n : snap.max_response_time = [num |-> w[i], den |-> 1]
            /\ \A i \in 1 .. n : AtMost(w[i], snap.max_response_time)
            /\ 2 * Cardinality({ i \in 1 .. n : AtMost(w[i], snap.median_response_time) }) >= n
            /\ 2 * Cardinality({ i \in 1 .. n : AtLeast(w[i], snap.median_response_time) }) >= n

\* C24: in every endpoint snapshot count and total_time are the lifetime
\* totals of the key, evicted requests included and also when the window is
\* empty, while mean, median, min and max come from the latencies retained in
\* the window only.
SnapshotLifetimeTotals ==
  [][ \A t \in Readers :
        (GetEndpointStatsReturns(t) /\ frame'[t].out.kind = "returned") =>
          IF Truthy(frame[t].endpoint)
          THEN LifetimeAndWindowed(frame'[t].out.value,
                                   endpoint_stats[frame[t].endpoint[1]])
          ELSE \A k \in DOMAIN endpoint_stats :
                 LifetimeAndWindowed(frame'[t].out.value[k], endpoint_stats[k]) ]_vars

\* The calls with key k whose latency the window of k still retains.
RetainedCallsWithKey(k) ==
  { i \in CallsWithKey(k) :
      Cardinality({ j \in CallsWithKey(k) : j > i }) < ResponseTimesMaxlen }

\* rate = |errors| / |calls|, 0 without calls.
IsRatio(rate, errors, all) ==
  IF all = {} THEN rate = [num |-> 0, den |-> 1]
  ELSE rate.num * Cardinality(all) = Cardinality(errors) * rate.den

\* C25 as stated: the error rate of a snapshot is computed from the requests
\* still retained in the window only; errors of evicted requests do not
\* influence it.
ErrorRateOverWindow ==
  [][ \A t \in Readers :
        (GetEndpointStatsReturns(t) /\ frame'[t].out.kind = "returned") =>
          IF Truthy(frame[t].endpoint)
          THEN IsRatio(frame'[t].out.value.error_rate,
                       ErrorCallsWithKey(frame[t].endpoint[1])
                         \cap RetainedCallsWithKey(frame[t].endpoint[1]),
                       RetainedCallsWithKey(frame[t].endpoint[1]))
          ELSE \A k \in DOMAIN endpoint_stats :
                 IsRatio(frame'[t].out.value[k].error_rate,
                         ErrorCallsWithKey(k) \cap RetainedCallsWithKey(k),
                         RetainedCallsWithKey(k)) ]_vars

\* C25: the error rate of a snapshot is the lifetime ratio errors / count of
\* the key: every request ever recorded for the key counts, also those whose
\* latency has been evicted from the window.
ErrorRateOverLifetime ==
  [][ \A t \in Readers :
        (GetEndpointStatsReturns(t) /\ frame'[t].out.kind = "returned") =>
          IF Truthy(frame[t].endpoint)
          THEN IsRatio(frame'[t].out.value.error_rate,
                       ErrorCallsWithKey(frame[t].endpoint[1]),
                       CallsWithKey(frame[t].endpoint[1]))
          ELSE \A k \in DOMAIN endpoint_stats :
                 IsRatio(frame'[t].out.value[k].error_rate,
                         ErrorCallsWithKey(k), CallsWithKey(k)) ]_vars

\* C25 witness: three requests of one key, the first one an error whose
\* latency the window has evicted; the snapshot of the key reports 1/3.
ErrorRateOverLifetimeWitness ==
  \E t \in Readers :
    /\ pc[t] = "returned"
    /\ frame[t].op = "get_endpoint_stats"
    /\ frame[t].endpoint = Some("GET /courses")
    /\ frame[t].out.kind = "returned"
    /\ frame[t].out.value.error_rate = [num |-> 1, den |-> 3]
    /\ Len(inserted) = 3
    /\ inserted[1].status_code = 404
    /\ 1 \notin RetainedCallsWithKey("GET /courses")

KeysCalled(history) == { EndpointKey(history[i]) : i \in DOMAIN history }

\* C26: endpoint_stats has an entry for a key iff record_request has been
\* called with that key, and entries are never removed; a record_request
\* call for one key leaves the entries of all other keys and system_metrics
\* as they were; no query, get_endpoint_stats of an unknown key included,
\* adds, removes or changes an entry.
EntriesOnlyByRecordRequest ==
  [][ /\ DOMAIN endpoint_stats' \subseteq KeysCalled(inserted')
      /\ Quiescent' => DOMAIN endpoint_stats' = KeysCalled(inserted')
      /\ DOMAIN endpoint_stats \subseteq DOMAIN endpoint_stats'
      /\ \A t \in Callers :
           pc'[t] # pc[t] =>
             /\ system_metrics' = system_metrics
             /\ IF InRecordRequest(t)
                THEN \A k \in DOMAIN endpoint_stats :
                       k # EndpointKey(frame[t].metric) =>
                         endpoint_stats'[k] = endpoint_stats[k]
                ELSE endpoint_stats' = endpoint_stats
      /\ \A t \in Readers : pc'[t] # pc[t] => monitor' = monitor ]_vars

\* C26 witness: both keys have been recorded and a sample stored, and
\* get_endpoint_stats of a key never recorded has ended without an entry
\* for it.
EntriesOnlyByRecordRequestWitness ==
  \E t \in Readers :
    /\ pc[t] = "returned"
    /\ frame[t].op = "get_endpoint_stats"
    /\ frame[t].endpoint = Some("GET /unknown")
    /\ DOMAIN endpoint_stats = {"GET /courses", "INTERNAL database_query"}
    /\ system_metrics # << >>

\* The finished is_allowed calls of one client, in order.
CallsOf(client_ip) == SelectSeq(admitted, LAMBDA o : o.client_ip = client_ip)

\* All calls of h were made within one rate-limit window: the first one is
\* less than RATE_LIMIT_WINDOW older than the last.
InOneWindow(h) ==
  \A i \in DOMAIN h : h[i].now > h[Len(h)].now - RATE_LIMIT_WINDOW

\* C27: for a fresh RateLimiter and one client whose calls all fall inside
\* one window, exactly the first RATE_LIMIT_REQUESTS calls of is_allowed
\* return True and every further call returns False.
FirstCallsAdmitted ==
  \A c \in ClientIps :
    InOneWindow(CallsOf(c)) =>
      \A i \in DOMAIN CallsOf(c) :
        CallsOf(c)[i].allowed = (i <= RATE_LIMIT_REQUESTS)

\* C27 witness: a client has made more calls than the limit inside one
\* window; the last one was denied.
FirstCallsAdmittedWitness ==
  \E c \in ClientIps :
    /\ Len(CallsOf(c)) > RATE_LIMIT_REQUESTS
    /\ InOneWindow(CallsOf(c))
    /\ ~CallsOf(c)[Len(CallsOf(c))].allowed
    /\ pc["h1"] = "idle"

\* The client a thread's is_allowed call is serving in this step, if any.
ServedClient(t) ==
  IF pc[t] = "idle"
  THEN IF pc'[t] = "idle" THEN None ELSE Some(frame'[t].client_ip)
  ELSE Some(frame[t].client_ip)

\* A step of an is_allowed call leaves every other client's entry as it was:
\* neither created, nor removed, nor changed.
OtherListsKept ==
  \A t \in Handlers : \A b \in ClientIps :
    (pc'[t] # pc[t] /\ ServedClient(t) # Some(b)) =>
      /\ (b \in DOMAIN requests') = (b \in DOMAIN requests)
      /\ b \in DOMAIN requests => requests'[b] = requests[b]

\* The timestamps of the client's own admitted calls that its latest call
\* kept.
OwnRecent(b) ==
  LET h    == CallsOf(b)
      kept == SelectSeq(h, LAMBDA o :
                 o.allowed /\ o.now > h[Len(h)].now - RATE_LIMIT_WINDOW)
  IN  [i \in DOMAIN kept |-> kept[i].now]

\* While no call for b is running, the list is_allowed will test for b is
\* made of b's own calls alone.
ListFromOwnCalls ==
  \A b \in ClientIps :
    (\A t \in Handlers : pc[t] = "idle" \/ frame[t].client_ip # b) =>
      (b \in DOMAIN requests => requests[b] = OwnRecent(b))

\* C28: a call of is_allowed for one client never changes the stored list of
\* another client, and so not the result of a later call for that client,
\* which is computed from that client's list alone; this holds also after the
\* first client has used up its limit.
OtherClientsUnaffected == [][OtherListsKept]_vars /\ []ListFromOwnCalls

\* C28 witness: one client was denied at its limit and another client was
\* admitted after that; the first client's list is still full and the other
\* client's list holds its admitted request.
OtherClientsUnaffectedWitness ==
  \E a, b \in ClientIps :
    /\ a # b
    /\ \E i, j \in DOMAIN admitted :
         /\ i < j
         /\ admitted[i].client_ip = a /\ ~admitted[i].allowed
         /\ admitted[j].client_ip = b /\ admitted[j].allowed
    /\ a \in DOMAIN requests /\ Len(requests[a]) = RATE_LIMIT_REQUESTS
    /\ b \in DOMAIN requests /\ Len(requests[b]) > 0

\* The earlier admitted calls among h[1..i-1] whose timestamp is strictly
\* later than h[i].now - RATE_LIMIT_WINDOW.
AdmittedInWindow(h, i) ==
  {j \in 1..(i - 1) : h[j].allowed /\ h[j].now > h[i].now - RATE_LIMIT_WINDOW}

\* Every finished call returned True exactly when fewer than
\* RATE_LIMIT_REQUESTS earlier admitted calls of the client lay in its window.
SlidingWindowResult ==
  \A c \in ClientIps : \A i \in DOMAIN CallsOf(c) :
    CallsOf(c)[i].allowed =
      (Cardinality(AdmittedInWindow(CallsOf(c), i)) < RATE_LIMIT_REQUESTS)

\* Denied calls are not stored: a list holds no more timestamps than the
\* client has admitted calls, and each of them is an admitted call's time.
DeniedNotStored ==
  \A c \in DOMAIN requests :
    /\ Len(requests[c]) <=
         Cardinality({i \in DOMAIN CallsOf(c) : CallsOf(c)[i].allowed})
    /\ \A k \in DOMAIN requests[c] :
         \E i \in DOMAIN CallsOf(c) :
           CallsOf(c)[i].allowed /\ CallsOf(c)[i].now = requests[c][k]

\* No stored list is longer than RATE_LIMIT_REQUESTS.
ListWithinLimit ==
  \A c \in DOMAIN requests : Len(requests[c]) <= RATE_LIMIT_REQUESTS

\* Call j of h is made when the oldest admitted request that counted against
\* the denied call i has left the window.
OldestAgedOut(h, i, j) ==
  \E o \in AdmittedInWindow(h, i) :
    /\ \A q \in AdmittedInWindow(h, i) : h[o].now <= h[q].now
    /\ h[o].now <= h[j].now - RATE_LIMIT_WINDOW

\* A denied client is admitted by its first call made after its oldest
\* admitted request has aged out of the window.
ReadmittedAfterAging ==
  \A c \in ClientIps :
    LET h == CallsOf(c)
    IN  \A i, j \in DOMAIN h :
          ( /\ i < j
            /\ ~h[i].allowed
            /\ OldestAgedOut(h, i, j)
            /\ \A m \in (i + 1)..(j - 1) : ~OldestAgedOut(h, i, m) )
          => h[j].allowed

\* C29: the limiter is a sliding window over admitted requests only:
\* is_allowed(c) at time t returns True iff fewer than RATE_LIMIT_REQUESTS
\* earlier admitted calls for c have a timestamp strictly later than
\* t - RATE_LIMIT_WINDOW; denied calls are not stored, the stored list never
\* exceeds RATE_LIMIT_REQUESTS, and a denied client is admitted again once
\* its oldest admitted request has aged out.
SlidingWindowOverAdmitted ==
  /\ SlidingWindowResult
  /\ DeniedNotStored
  /\ ListWithinLimit
  /\ ReadmittedAfterAging

\* C29 witness: a client was denied, time passed until its oldest admitted
\* request left the window, and its next call was admitted.
SlidingWindowOverAdmittedWitness ==
  \E c \in ClientIps :
    LET h == CallsOf(c)
    IN  \E i, j \in DOMAIN h :
          /\ i < j
          /\ ~h[i].allowed
          /\ OldestAgedOut(h, i, j)
          /\ h[j].allowed
          /\ Len(requests[c]) = RATE_LIMIT_REQUESTS

\* The admitted calls of a client whose timestamp lies in the window that
\* ends at the present time.
AdmittedCalls(c) ==
  {i \in DOMAIN CallsOf(c) :
     CallsOf(c)[i].allowed /\ CallsOf(c)[i].now > now - RATE_LIMIT_WINDOW}

\* No more than RATE_LIMIT_REQUESTS calls of a client were admitted within
\* one window.
AdmittedWithinLimit ==
  \A c \in ClientIps : Cardinality(AdmittedCalls(c)) <= RATE_LIMIT_REQUESTS

\* Every admitted timestamp that is still inside the window is in the
\* client's list.
NoTimestampLost ==
  \A c \in ClientIps :
    AdmittedCalls(c) # {} =>
      /\ c \in DOMAIN requests
      /\ Len(KeepRecent(requests[c], now - RATE_LIMIT_WINDOW))
           >= Cardinality(AdmittedCalls(c))

\* C30: under concurrent is_allowed calls for the same client, at most
\* RATE_LIMIT_REQUESTS calls are admitted within one window and no admitted
\* request's timestamp is lost, whatever the interleaving of the prune, the
\* length check and the append of two callers.
ConcurrentCallsWithinLimit == AdmittedWithinLimit /\ NoTimestampLost

====
